---------------------------- MODULE Spec2Model ----------------------------
(* Job scheduling and sandboxed execution core of Automa:                  *)
(*   backend/app/services/agent_service.py     agent lifecycle             *)
(*   backend/app/services/sandbox_service.py   container engine calls      *)
(*   backend/app/services/job_service.py       jobs and executions         *)
(*   backend/app/services/scheduler_service.py live timer set, dispatch    *)
(*   backend/app/core/shutdown.py              shutdown, orphan cleanup    *)
(*   backend/app/core/retry.py                 retry with backoff          *)
(*   backend/app/core/audit.py                 audit log writes            *)
(*   backend/app/core/deps.py                  the requesting user         *)
(*   backend/app/main.py                       process lifespan            *)
(* Coroutines are cut at the points where the event loop can switch to     *)
(* another coroutine: the storage round trips.  The container engine calls *)
(* of SandboxService are synchronous: they run to completion in one step,  *)
(* or hold the event loop while they wait (container_wait).                *)
(* Two names the source uses as written do not resolve in the repository:  *)
(* AsyncSessionLocal (database.py defines async_session_maker) and the     *)
(* eager-load option Job.agent.script.  They are taken as what they stand  *)
(* for: the session factory, and the load of job.agent with its script.    *)
EXTENDS Integers, FiniteSets, Sequences, TLC

\* ------------------------------------------------------------------ bounds
MaxAgents == 1
MaxCallers == 2
MaxContainers == 3
MaxJobs == 2
MaxJobSpecJobs == 1
MaxExecs == 4
MaxJobSpecExecs == 1
MaxDispatchExecs == 2
MaxTime == 400
MaxCleanups == 1
MaxUsers == 2
MaxOwnerExecs == 1
MaxSandboxExecs == 2
MaxExitCode == 2

Agents == 1..MaxAgents
Callers == 1..MaxCallers
ContainerIds == 1..MaxContainers
Jobs == 1..MaxJobs
JobSpecJobs == 1..MaxJobSpecJobs
ExecIds == 1..MaxExecs
Users == 1..MaxUsers
ExitCodes == 0..MaxExitCode

\* config_json holds no "container_id" key
NoHandle == 0
\* the engine has no container of that id (docker.errors.NotFound); no agent named
NoAgent == 0
\* next_run is None; no fire time
NoTime == -1
\* interval_seconds is None
NoSeconds == 0
\* no user: created_by of a row that does not exist
NoUser == 0

VARIABLES
    phase,        \* "down" | "up": lifespan has completed startup and not yet shut down
    agents,       \* the agents table: status, config_json["container_id"], script
    containers,   \* container engine: id -> agent whose name automa_agent_<id> it bears
    call,         \* per API caller: the start_agent / stop_agent coroutine in progress
    ret,          \* per API caller: how its last completed call ended, and the status it found
    runCount,     \* per agent: containers created since its status was last written non-running
    swept,        \* what the last graceful_shutdown_agents found and did
    now,          \* wall clock, seconds
    jobs,         \* the jobs table
    timers,       \* the scheduler's live timer set: job id -> trigger and next fire time
    instances,    \* per job: dispatch callbacks the timer facility has running
    execs,        \* the job_executions table, with the coroutine that owns each row
    nextExec,     \* next execution id
    pending,      \* per job: the fire time that was armed when the process went down
    jret,         \* how the last completed execute_job / _execute_job call ended
    retry,        \* the engine call that retry_async is making, attempt by attempt
    cleanups,     \* how many times cleanup_orphaned_containers has run to its end
    result,       \* what the last observed execute_script call was given and returned
    current_user  \* the authenticated user whose requests the API is taking

avars == <<agents, containers, call, ret, runCount, swept>>
jvars == <<now, jobs, timers, instances, execs, nextExec, pending, jret>>
ovars == <<result, current_user>>
xvars == <<retry, cleanups, ovars>>
vars == <<phase, avars, jvars, xvars>>

\* ------------------------------------------------------------------ agents
NoRow == [exists |-> FALSE, script |-> FALSE, status |-> "stopped", container_id |-> NoHandle,
          created_by |-> NoUser]
IdleCall == [op |-> "idle", agent |-> NoAgent, restart |-> FALSE, handle |-> NoHandle,
             user |-> NoUser]
NoRet == [op |-> "none", agent |-> NoAgent, out |-> "none", was |-> "none"]
NoSweep == [done |-> FALSE, committed |-> FALSE, escaped |-> FALSE, withHandle |-> {},
            withoutHandle |-> {}]

Quiescent == \A p \in Callers : call[p].op = "idle"

\* SandboxService.execute_script calls container.wait(timeout=...) directly from the
\* coroutine: the call is synchronous, and the event loop runs nothing else until
\* it comes back.
Blocked == \E e \in ExecIds : execs[e].live /\ execs[e].container = "waiting"

\* The process is up and its event loop is free to run a handler or a callback
Serving == phase = "up" /\ ~Blocked

\* core/deps.py current_active_user: the next requests are another user's
login(u) ==
    /\ Serving
    /\ u # current_user
    /\ current_user' = u
    /\ UNCHANGED <<phase, avars, jvars, retry, cleanups, result>>

\* AgentService.get_agent: the row of that id created by that user, or None
get_agent(a, u) == agents[a].exists /\ agents[a].created_by = u

\* AgentService.create_agent: a new row with status "stopped"; script_id may name a
\* script that is gone, in which case agent.script loads as None.
create_agent(a, hasScript) ==
    /\ Serving
    /\ ~agents[a].exists
    /\ agents' = [agents EXCEPT ![a] =
                    [exists |-> TRUE, script |-> hasScript, status |-> "stopped",
                     container_id |-> NoHandle, created_by |-> current_user]]
    /\ UNCHANGED <<phase, containers, call, ret, runCount, swept, jvars, xvars>>

\* The containers that bear the deterministic name automa_agent_<a>.
Named(a) == {c \in ContainerIds : containers[c] = a}

\* SandboxService() and SandboxService.start_agent_container, as the engine answers:
\*   "client_failed"  docker.from_env() raises in the constructor, outside the try
\*   "ok"             the stale container of that name is removed, a new one is run
\*   "before"         it raises before the engine is changed (script file missing,
\*                    containers.get fails)
\*   "run_failed"     the stale container is removed, containers.run raises
StartOutcomes == {"client_failed", "ok", "before", "run_failed"}

\* start_agent after the container is running and status "running" with the new
\* container id is committed: log_action, called inside the same try, raises.
\*   "audit_failed"    the handler commits status "error", logs again, and the
\*                     exception goes on to the caller
\*   "session_failed"  the handler's own commit raises on the session the failed
\*                     commit left behind: the row stays as it was committed
AuditOutcomes == {"audit_failed", "session_failed"}

\* Container ids the engine has never handed out, as far as anything still recorded
\* can tell: not a live container, not a stored handle, not a handle a caller holds.
UnusedCids ==
    {c \in ContainerIds :
        /\ containers[c] = NoAgent
        /\ \A a \in Agents : agents[a].container_id # c
        /\ \A p \in Callers : call[p].handle # c}

\* container.id of the container that containers.run creates next
FreshCid == CHOOSE c \in UnusedCids : \A d \in UnusedCids : c <= d

\* (mutant) start_agent_container without the removal of the stale container
start_agent_container_keeps(a, outcome) ==
    IF outcome \in {"ok"} \cup AuditOutcomes
        THEN [c \in ContainerIds |-> IF c = FreshCid THEN a ELSE containers[c]]
    ELSE containers

start_agent_container(a, outcome) ==
    IF outcome \in {"ok"} \cup AuditOutcomes
        THEN [c \in ContainerIds |->
                IF c = FreshCid THEN a ELSE IF containers[c] = a THEN NoAgent ELSE containers[c]]
    ELSE IF outcome = "run_failed"
        THEN [c \in ContainerIds |-> IF containers[c] = a THEN NoAgent ELSE containers[c]]
    ELSE containers

OpName(op, restart) == IF restart THEN "restart" ELSE op

\* (mutant) start_agent without its script check
ScriptNeverMissing(row) == FALSE

\* start_agent's check that the agent has a script assigned: not agent.script
NoScriptAssigned(row) == ~row.script

\* (mutant) start_agent without its already-running check
NeverAlreadyRunning(row) == FALSE

\* start_agent's check that the agent is already running
AlreadyRunning(row) == row.status = "running"

\* start_agent up to its first engine call: get_agent, the script check, the
\* already-running check.
start_agent_load(p, a, restart) ==
    /\ IF ~get_agent(a, IF restart THEN call[p].user ELSE current_user)
         THEN /\ ret' = [ret EXCEPT ![p] = [op |-> OpName("start", restart), agent |-> a,
                                            out |-> "none",
                                            was |-> agents[a].status]]
              /\ call' = [call EXCEPT ![p] = IdleCall]
       ELSE IF NoScriptAssigned(agents[a])
         THEN /\ ret' = [ret EXCEPT ![p] = [op |-> OpName("start", restart), agent |-> a,
                                            out |-> "raised",
                                            was |-> agents[a].status]]
              /\ call' = [call EXCEPT ![p] = IdleCall]
       ELSE IF AlreadyRunning(agents[a])
         THEN /\ ret' = [ret EXCEPT ![p] = [op |-> OpName("start", restart), agent |-> a,
                                            out |-> "running",
                                            was |-> agents[a].status]]
              /\ call' = [call EXCEPT ![p] = IdleCall]
       ELSE /\ call' = [call EXCEPT ![p] = [op |-> "start", agent |-> a, restart |-> restart,
                                            handle |-> agents[a].container_id,
                                            user |-> IF restart THEN call[p].user
                                                     ELSE current_user]]
            /\ ret' = ret
    /\ UNCHANGED <<phase, agents, containers, runCount, swept, jvars, xvars>>

StartLoad(p, a) ==
    /\ Serving
    /\ call[p].op = "idle"
    /\ start_agent_load(p, a, FALSE)

\* (mutant) start_agent writes "running" whether or not the container started
StartStatusRunning(outcome) == "running"

\* (mutant) start_agent leaves a failed start looking like a stopped agent
StartStatusStopped(outcome) == IF outcome = "ok" THEN "running" ELSE "stopped"

\* The status start_agent commits after start_agent_container returned or raised
StartStatus(outcome) == IF outcome = "ok" THEN "running" ELSE "error"

\* start_agent from the engine call to its return: on success status "running" and
\* the new container id are committed; on an exception of start_agent_container
\* status "error" is committed and the exception is raised again.
start_agent_launch(p, outcome) ==
    LET a == call[p].agent IN
    /\ Serving
    /\ call[p].op = "start"
    /\ outcome \in {"ok"} \cup AuditOutcomes => UnusedCids # {}
    /\ containers' = start_agent_container(a, outcome)
    /\ IF outcome = "client_failed"
         THEN /\ UNCHANGED <<agents, runCount>>
              /\ ret' = [ret EXCEPT ![p] = [op |-> OpName("start", call[p].restart),
                                            agent |-> a, out |-> "raised",
                                            was |-> agents[a].status]]
       ELSE IF outcome = "ok"
         THEN /\ agents' = [agents EXCEPT ![a].status = StartStatus(outcome),
                                          ![a].container_id = FreshCid]
              /\ runCount' = [runCount EXCEPT ![a] = @ + 1]
              /\ ret' = [ret EXCEPT ![p] = [op |-> OpName("start", call[p].restart),
                                            agent |-> a, out |-> "running",
                                            was |-> agents[a].status]]
       ELSE IF outcome \in AuditOutcomes
         THEN /\ agents' = [agents EXCEPT
                              ![a].status = IF outcome = "session_failed"
                                              THEN "running" ELSE StartStatus(outcome),
                              ![a].container_id = FreshCid]
              /\ runCount' = [runCount EXCEPT
                                ![a] = IF outcome = "session_failed" THEN @ + 1 ELSE 0]
              /\ ret' = [ret EXCEPT ![p] = [op |-> OpName("start", call[p].restart),
                                            agent |-> a, out |-> "raised",
                                            was |-> agents[a].status]]
         ELSE /\ agents' = [agents EXCEPT ![a].status = StartStatus(outcome)]
              /\ runCount' = [runCount EXCEPT ![a] = 0]
              /\ ret' = [ret EXCEPT ![p] = [op |-> OpName("start", call[p].restart),
                                            agent |-> a, out |-> "raised",
                                            was |-> agents[a].status]]
    /\ call' = [call EXCEPT ![p] = IdleCall]
    /\ UNCHANGED <<phase, swept, jvars, xvars>>

StartLaunch(p) == \E outcome \in StartOutcomes : start_agent_launch(p, outcome)

\* start_agent with a container started and the audit write failing
StartLaunchAuditFails(p) == \E outcome \in AuditOutcomes : start_agent_launch(p, outcome)

\* SandboxService.stop_agent_container(container_id): stop and remove; NotFound is
\* swallowed; any other engine error is raised as RuntimeError.  The signature takes
\* no keyword argument: a call with timeout=... raises TypeError before the body runs.
StopOutcomes(h, kwargs) ==
    IF kwargs # {} THEN {"raised"}
    ELSE IF containers[h] = NoAgent THEN {"ok"}
    ELSE {"ok", "raised"}

stop_agent_container(h, outcome) ==
    IF outcome = "ok" THEN [containers EXCEPT ![h] = NoAgent] ELSE containers

\* (mutant) stop_agent without its already-stopped check
NeverAlreadyStopped(row) == FALSE

\* stop_agent's check that the agent is already stopped
AlreadyStopped(row) == row.status = "stopped"

\* stop_agent up to its engine call: get_agent and the already-stopped check.
stop_agent_load(p, a, restart) ==
    /\ IF ~get_agent(a, current_user)
         THEN /\ ret' = [ret EXCEPT ![p] = [op |-> OpName("stop", restart), agent |-> a,
                                            out |-> "none",
                                            was |-> agents[a].status]]
              /\ call' = [call EXCEPT ![p] = IdleCall]
       ELSE IF AlreadyStopped(agents[a]) /\ ~restart
         THEN /\ ret' = [ret EXCEPT ![p] = [op |-> "stop", agent |-> a, out |-> "stopped",
                                            was |-> agents[a].status]]
              /\ call' = [call EXCEPT ![p] = IdleCall]
       ELSE IF AlreadyStopped(agents[a])
         THEN /\ call' = [call EXCEPT ![p] = [op |-> "restart", agent |-> a, restart |-> TRUE,
                                              handle |-> NoHandle, user |-> current_user]]
              /\ ret' = ret
       ELSE /\ call' = [call EXCEPT ![p] = [op |-> "stop", agent |-> a, restart |-> restart,
                                            handle |-> agents[a].container_id,
                                            user |-> current_user]]
            /\ ret' = ret
    /\ UNCHANGED <<phase, agents, containers, runCount, swept, jvars, xvars>>

StopLoad(p, a) ==
    /\ Serving
    /\ call[p].op = "idle"
    /\ stop_agent_load(p, a, FALSE)

\* (mutant) stop_agent marks the agent stopped only when its container was stopped
StopStatusIfStopped(old, outcome) == IF outcome = "ok" THEN "stopped" ELSE old

\* The status stop_agent commits after the try: "stopped", whatever the engine said
StopStatus(old, outcome) == "stopped"

\* stop_agent from the engine call to its return: the handle is deleted from the
\* configuration only when stop_agent_container returned; status "stopped" is
\* committed whether it returned or raised.  SandboxService() is constructed outside
\* the try: when it raises, stop_agent raises and nothing is written.
stop_agent_finish(p, outcome) ==
    LET a == call[p].agent
        h == call[p].handle
        cleared == h # NoHandle /\ outcome = "ok"
    IN
    /\ Serving
    /\ call[p].op = "stop"
    /\ IF h = NoHandle THEN outcome = "ok"
       ELSE outcome \in StopOutcomes(h, {}) \cup {"client_failed"}
    /\ containers' = IF h = NoHandle THEN containers ELSE stop_agent_container(h, outcome)
    /\ IF outcome = "client_failed"
         THEN UNCHANGED <<agents, runCount>>
         ELSE /\ agents' = [agents EXCEPT ![a].status = StopStatus(@, outcome),
                                          ![a].container_id = IF cleared THEN NoHandle ELSE @]
              /\ runCount' = [runCount EXCEPT ![a] = 0]
    /\ IF outcome = "client_failed"
         THEN /\ call' = [call EXCEPT ![p] = IdleCall]
              /\ ret' = [ret EXCEPT ![p] = [op |-> OpName("stop", call[p].restart),
                                            agent |-> a, out |-> "raised",
                                            was |-> agents[a].status]]
       ELSE IF call[p].restart
         THEN /\ call' = [call EXCEPT ![p] = [op |-> "restart", agent |-> a, restart |-> TRUE,
                                              handle |-> NoHandle, user |-> call[p].user]]
              /\ ret' = ret
         ELSE /\ call' = [call EXCEPT ![p] = IdleCall]
              /\ ret' = [ret EXCEPT ![p] = [op |-> "stop", agent |-> a, out |-> "stopped",
                                            was |-> agents[a].status]]
    /\ UNCHANGED <<phase, swept, jvars, xvars>>

StopFinish(p) ==
    \E outcome \in {"client_failed", "ok", "raised"} : stop_agent_finish(p, outcome)

\* restart_agent: stop_agent, then start_agent unless stop_agent returned None.
RestartStop(p, a) ==
    /\ Serving
    /\ call[p].op = "idle"
    /\ stop_agent_load(p, a, TRUE)

RestartStart(p) ==
    /\ Serving
    /\ call[p].op = "restart"
    /\ start_agent_load(p, call[p].agent, TRUE)

\* The engine loses a container behind the program's back (removed by an operator,
\* or the engine was reset).
ContainerVanishes(c) ==
    /\ containers[c] # NoAgent
    /\ containers' = [containers EXCEPT ![c] = NoAgent]
    /\ UNCHANGED <<phase, agents, call, ret, runCount, swept, jvars, xvars>>

\* ------------------------------------------------------------------ retry
\* @with_retry(max_retries=3, delay=1.0, ...) on start_agent_container and
\* stop_agent_container; backoff is with_retry's default
max_retries == 3
delay == 1
backoff == 2

\* exceptions=(...) of the decorator on each function
RetriedExceptions(func) ==
    IF func = "start_agent_container" THEN {"APIError", "DockerException"}
    ELSE {"APIError"}

\* What the engine does to one attempt:
\*   "none"       it answers every request
\*   "not_found"  stop_agent_container: it knows no container of that id
\*   "get_error"  start_agent_container: looking up or removing the stale container
\*                of that name fails with an APIError other than NotFound
\*   "api_error"  containers.run (start), containers.get / stop / remove (stop)
\*                fails with an APIError other than NotFound
EngineFaults(func) ==
    IF func = "start_agent_container" THEN {"none", "get_error", "api_error"}
    ELSE {"none", "not_found", "api_error"}

\* The exception that leaves the function body.  start_agent_container guards the
\* stale-container block with except NotFound only, and wraps whatever
\* containers.run raises in RuntimeError; stop_agent_container swallows NotFound and
\* wraps everything else in RuntimeError.
Raises(func, fault) ==
    IF fault = "none" \/ fault = "not_found" THEN "none"
    ELSE IF func = "start_agent_container" /\ fault = "get_error" THEN "APIError"
    ELSE "RuntimeError"

\* (mutant) retry_async that goes round again after every listed exception
MayRetryAlways(attempt) == TRUE

\* retry_async's loop has another pass left: range(max_retries + 1), and the sleep
\* under "if attempt < max_retries"
MayRetry(attempt) == attempt < max_retries

NoTry == [func |-> "none", arg |-> 0, attempt |-> 0, current_delay |-> 0, slept |-> 0,
          fault |-> "none", out |-> "none"]

\* The decorated function is called: retry_async enters its loop.  arg is the agent
\* id of start_agent_container, which start_agent calls with the agent's script, or
\* the container id of stop_agent_container.
with_retry(func, arg) ==
    /\ Serving
    /\ retry.out # "calling"
    /\ func = "start_agent_container" => agents[arg].exists /\ agents[arg].script
    /\ retry' = [func |-> func, arg |-> arg, attempt |-> 0, current_delay |-> delay,
                 slept |-> 0, fault |-> "none", out |-> "calling"]
    /\ UNCHANGED <<phase, avars, jvars, cleanups, ovars>>

\* One pass of retry_async's loop: the function is awaited; an exception of a listed
\* class is slept on for current_delay seconds and retried while attempt <
\* max_retries, and raised after the last attempt; any other exception leaves the
\* loop at once.
retry_async(fault) ==
    LET func == retry.func
        raised == Raises(func, fault)
        outcome == IF fault = "none" THEN "ok"
                   ELSE IF fault = "api_error" THEN "run_failed" ELSE "before"
        again == raised \in RetriedExceptions(func) /\ MayRetry(retry.attempt)
    IN
    /\ Serving
    /\ retry.out = "calling"
    /\ fault \in EngineFaults(func)
    /\ again => now + retry.current_delay <= MaxTime
    /\ now' = IF again THEN now + retry.current_delay ELSE now
    /\ IF func = "start_agent_container"
         THEN /\ fault = "none" => UnusedCids # {}
              /\ containers' = start_agent_container(retry.arg, outcome)
         ELSE /\ fault = "not_found" <=> containers[retry.arg] = NoAgent
              /\ containers' = stop_agent_container(retry.arg,
                                    IF fault = "api_error" THEN "raised" ELSE "ok")
    /\ retry' =
          IF raised = "none"
            THEN [retry EXCEPT !.fault = fault, !.out = "returned"]
          ELSE IF again
            THEN [retry EXCEPT !.fault = fault, !.attempt = @ + 1,
                               !.slept = @ + retry.current_delay,
                               !.current_delay = @ * backoff]
          ELSE [retry EXCEPT !.fault = fault, !.out = "raised"]
    /\ UNCHANGED <<phase, agents, call, ret, runCount, swept, jobs, timers, instances,
                   execs, nextExec, pending, jret, cleanups, ovars>>

\* ------------------------------------------------------------------ jobs
\* SchedulerService.__init__, job_defaults
max_instances == 3
misfire_grace_time == 300

Kinds == {"once", "interval", "cron"}
\* cron_expression: None; one that no parser takes; one of six fields, which croniter
\* takes (the sixth is seconds) and CronTrigger.from_crontab does not (it wants
\* five); one that fires every 200 seconds
CronExprs == {"none", "bad", "six_fields", "every200"}
\* croniter(expr, ...) raises
CroniterRejects == {"bad"}
\* CronTrigger.from_crontab(expr) raises
CrontabRejects == {"bad", "six_fields"}
Seconds == {NoSeconds, 100}

NoJob == [exists |-> FALSE, agent |-> NoAgent, schedule_type |-> "once",
          interval_seconds |-> NoSeconds, cron_expression |-> "none",
          next_run |-> NoTime, is_active |-> FALSE, created_by |-> NoUser]
NoTimer == [armed |-> FALSE, trigger |-> "none", seconds |-> NoSeconds, next |-> NoTime]
NoExec == [exists |-> FALSE, live |-> FALSE, job |-> 0, trigger |-> "none",
           status |-> "none", finished |-> FALSE, container |-> "none",
           outcome |-> "none", kind |-> "none", seconds |-> NoSeconds, fired |-> NoTime]

\* No execute_job / _execute_job call has completed since the process came up
NoJobRet == [op |-> "none", job |-> 0, failure |-> "none", out |-> "none"]

\* croniter(expr, t).get_next(): the first matching time strictly after t
CronNext(t) == ((t \div 200) + 1) * 200

\* (mutant) execute_job without its script check
HasScriptUnchecked(j) == TRUE

\* job.agent and job.agent.script both load
HasScript(j) ==
    /\ jobs[j].agent # NoAgent
    /\ agents[jobs[j].agent].exists
    /\ agents[jobs[j].agent].script

\* SchedulerService.schedule_job raises ValueError for this row
ScheduleRaises(row) ==
    IF row.schedule_type = "cron" /\ row.cron_expression # "none"
        THEN row.cron_expression \in CrontabRejects
    ELSE IF row.schedule_type = "interval" /\ row.interval_seconds # NoSeconds
        THEN FALSE
    ELSE IF row.schedule_type = "once" /\ row.next_run # NoTime
        THEN FALSE
    ELSE TRUE

\* The entry add_job puts into the timer set: CronTrigger fires at the next match,
\* IntervalTrigger first fires one interval from now, DateTrigger at run_date.
TimerEntry(row) ==
    IF row.schedule_type = "cron"
        THEN [armed |-> TRUE, trigger |-> "cron", seconds |-> NoSeconds, next |-> CronNext(now)]
    ELSE IF row.schedule_type = "interval"
        THEN [armed |-> TRUE, trigger |-> "interval", seconds |-> row.interval_seconds,
              next |-> now + row.interval_seconds]
    ELSE [armed |-> TRUE, trigger |-> "date", seconds |-> NoSeconds, next |-> row.next_run]

\* (mutant) schedule_job that leaves an entry already in the timer set as it is
schedule_job_keeps(tm, j, row) ==
    [tm EXCEPT ![j] = IF @.armed THEN @
                      ELSE IF ScheduleRaises(row) THEN NoTimer ELSE TimerEntry(row)]

\* (mutant) schedule_job that validates the configuration before it removes the entry
schedule_job_validates_first(tm, j, row) ==
    [tm EXCEPT ![j] = IF ScheduleRaises(row) THEN @ ELSE TimerEntry(row)]

\* SchedulerService.schedule_job: the existing entry is removed first, then the new
\* one is added unless the configuration is invalid.
schedule_job(tm, j, row) ==
    [tm EXCEPT ![j] = IF ScheduleRaises(row) THEN NoTimer ELSE TimerEntry(row)]

\* SchedulerService.unschedule_job
unschedule_job(tm, j) == [tm EXCEPT ![j] = NoTimer]

\* JobService.create_job: next_run by schedule kind
InitialNextRun(kind, seconds, cron) ==
    IF kind = "once" THEN now + 60
    ELSE IF kind = "interval" /\ seconds # NoSeconds THEN now + seconds
    ELSE IF kind = "cron" /\ cron # "none" THEN CronNext(now)
    ELSE NoTime

\* JobService.get_job: the row of that id created by that user, or None
get_job(j, u) == jobs[j].exists /\ jobs[j].created_by = u

create_job(j, a, kind, seconds, cron, active) ==
    LET row == [exists |-> TRUE, agent |-> a, schedule_type |-> kind,
                interval_seconds |-> seconds, cron_expression |-> cron,
                next_run |-> InitialNextRun(kind, seconds, cron), is_active |-> active,
                created_by |-> current_user]
    IN
    /\ Serving
    /\ ~jobs[j].exists
    /\ IF kind = "cron" /\ cron \in CroniterRejects
         THEN UNCHANGED <<jobs, timers>>
         ELSE /\ jobs' = [jobs EXCEPT ![j] = row]
              /\ timers' = IF active THEN schedule_job(timers, j, row) ELSE timers
    /\ UNCHANGED <<phase, avars, now, instances, execs, nextExec, pending, jret, xvars>>

\* JobService.update_job with one field set in the request
Updated(row, field, value) ==
    IF field = "is_active" THEN [row EXCEPT !.is_active = value]
    ELSE IF field = "schedule_type" THEN [row EXCEPT !.schedule_type = value]
    ELSE IF field = "interval_seconds" THEN [row EXCEPT !.interval_seconds = value]
    ELSE [row EXCEPT !.cron_expression = value]

Recalculated(row, field) ==
    IF field = "is_active" THEN row
    ELSE IF row.schedule_type = "interval" /\ row.interval_seconds # NoSeconds
        THEN [row EXCEPT !.next_run = now + row.interval_seconds]
    ELSE IF row.schedule_type = "cron" /\ row.cron_expression # "none"
        THEN [row EXCEPT !.next_run = CronNext(now)]
    ELSE row

UpdateRaises(row, field) ==
    /\ field # "is_active"
    /\ row.schedule_type = "cron"
    /\ row.cron_expression \in CroniterRejects

\* JobCreate bodies: the parameter of the chosen kind, given or left out
JobRequests ==
    {<<"once", NoSeconds, "none">>}
        \cup ({"interval"} \X Seconds \X {"none"})
        \cup ({"cron"} \X {NoSeconds} \X CronExprs)

Updates ==
    ({"is_active"} \X BOOLEAN) \cup ({"schedule_type"} \X Kinds)
        \cup ({"interval_seconds"} \X {100}) \cup ({"cron_expression"} \X {"bad", "every200"})

update_job(j, field, value) ==
    LET set == Updated(jobs[j], field, value)
        row == Recalculated(set, field)
    IN
    /\ Serving
    /\ get_job(j, current_user)
    /\ IF UpdateRaises(set, field)
         THEN UNCHANGED <<jobs, timers>>
         ELSE /\ jobs' = [jobs EXCEPT ![j] = row]
              /\ timers' = IF row.is_active THEN schedule_job(timers, j, row)
                           ELSE unschedule_job(timers, j)
    /\ UNCHANGED <<phase, avars, now, instances, execs, nextExec, pending, jret, xvars>>

\* Rows of job_executions removed with their job (cascade="all, delete-orphan")
WithoutExecutionsOf(js) ==
    [e \in ExecIds |-> IF execs[e].exists /\ execs[e].job \in js
                         THEN [NoExec EXCEPT !.live = execs[e].live, !.job = execs[e].job,
                                             !.trigger = execs[e].trigger]
                         ELSE execs[e]]

\* JobService.delete_job: unschedule, then delete the row and its executions
delete_job(j) ==
    /\ Serving
    /\ get_job(j, current_user)
    /\ timers' = unschedule_job(timers, j)
    /\ jobs' = [jobs EXCEPT ![j] = NoJob]
    /\ execs' = WithoutExecutionsOf({j})
    /\ UNCHANGED <<phase, avars, now, instances, nextExec, pending, jret, xvars>>

\* AgentService.delete_agent: the row, its jobs and their executions are deleted;
\* the scheduler is not told.
delete_agent(a) ==
    LET js == {j \in Jobs : jobs[j].exists /\ jobs[j].agent = a} IN
    /\ Serving
    /\ get_agent(a, current_user)
    /\ \A p \in Callers : call[p].agent # a
    /\ agents' = [agents EXCEPT ![a] = NoRow]
    /\ jobs' = [j \in Jobs |-> IF j \in js THEN NoJob ELSE jobs[j]]
    /\ execs' = WithoutExecutionsOf(js)
    /\ runCount' = [runCount EXCEPT ![a] = 0]
    /\ UNCHANGED <<phase, containers, call, ret, swept, now, timers, instances,
                   nextExec, pending, jret, xvars>>

\* JobService.execute_job up to the commit of the new row: None when the job is not
\* found, ValueError when its agent or script is missing, else a row with status
\* "running".  The row remembers the job attributes the session loaded and the fire
\* time of the timer entry that was dispatched.
NewExecution(j, trigger, fired) ==
    [exists |-> TRUE, live |-> TRUE, job |-> j, trigger |-> trigger, status |-> "running",
     finished |-> FALSE, container |-> "none", outcome |-> "none",
     kind |-> jobs[j].schedule_type, seconds |-> jobs[j].interval_seconds,
     fired |-> fired]

\* api/jobs.py execute_job: the manual trigger
ExecuteJobNow(j) ==
    /\ Serving
    /\ get_job(j, current_user)
    /\ IF HasScript(j)
         THEN /\ nextExec <= MaxExecs
              /\ execs' = [execs EXCEPT ![nextExec] = NewExecution(j, "manual", NoTime)]
              /\ nextExec' = nextExec + 1
              /\ jret' = jret
         ELSE /\ UNCHANGED <<execs, nextExec>>
              /\ jret' = [op |-> "manual", job |-> j, failure |-> "no_script",
                          out |-> "raised"]
    /\ UNCHANGED <<phase, avars, now, jobs, timers, instances, pending, xvars>>

\* What the timer facility does with a timer entry once its fire time is processed:
\* interval and cron triggers compute the following fire time, a date trigger is
\* exhausted and its entry removed.
AfterFire(entry) ==
    IF entry.trigger = "interval" THEN [entry EXCEPT !.next = entry.next + entry.seconds]
    ELSE IF entry.trigger = "cron" THEN [entry EXCEPT !.next = CronNext(entry.next)]
    ELSE NoTimer

\* (mutant) the timer facility submits the callback however many instances run
MayRunInstanceUnbounded(j) == TRUE

\* The timer facility may submit another instance of the job's callback
MayRunInstance(j) == instances[j] < max_instances

\* The fire is late beyond the grace time and is dropped as missed
Misfired(runTime) == now - runTime > misfire_grace_time

\* (mutant) _execute_job without its not-found and inactive checks
CallbackFailureUnchecked(j, db) ==
    IF db = "error" THEN "storage"
    ELSE IF ~HasScript(j) THEN "no_script"
    ELSE "none"

\* What stops SchedulerService._execute_job before an execution row is committed:
\*   "storage"    a query or commit raises
\*   "skipped"    the job is not found or is inactive: logged, return
\*   "no_script"  JobService.execute_job raises ValueError
\*   "none"       nothing: the row is committed with status "running"
CallbackFailure(j, db) ==
    IF db = "error" THEN "storage"
    ELSE IF ~jobs[j].exists \/ ~jobs[j].is_active THEN "skipped"
    ELSE IF ~HasScript(j) THEN "no_script"
    ELSE "none"

\* The failures that reach _execute_job as an exception
Raising == {"storage", "no_script", "sandbox"}

\* (mutant) _execute_job without its exception handler
CaughtNothing(failure) == FALSE

\* _execute_job's handler: except Exception, log, roll back
Caught(failure) == failure \in Raising

\* How the _execute_job callback of job j ends after the given failure
CallbackRet(j, failure) ==
    [op |-> "timer", job |-> j, failure |-> failure,
     out |-> IF failure \in Raising /\ ~Caught(failure) THEN "escaped" ELSE "returned"]

\* A due timer entry is processed, and SchedulerService._execute_job runs up to the
\* commit of the execution row.
_execute_job(j, db) ==
    LET entry == timers[j]
        dispatch == MayRunInstance(j) /\ ~Misfired(entry.next)
        failure == CallbackFailure(j, db)
    IN
    /\ Serving
    /\ entry.armed
    /\ entry.next <= now
    /\ timers' = [timers EXCEPT ![j] = AfterFire(entry)]
    /\ IF dispatch /\ failure = "none"
         THEN /\ nextExec <= MaxExecs
              /\ execs' = [execs EXCEPT ![nextExec] = NewExecution(j, "timer", entry.next)]
              /\ nextExec' = nextExec + 1
              /\ instances' = [instances EXCEPT ![j] = @ + 1]
              /\ jret' = jret
         ELSE /\ UNCHANGED <<execs, nextExec, instances>>
              /\ jret' = IF dispatch THEN CallbackRet(j, failure) ELSE jret
    /\ UNCHANGED <<phase, avars, now, jobs, pending, xvars>>

TimerFire(j) == \E db \in {"ok", "error"} : _execute_job(j, db)

\* SandboxService() and SandboxService.execute_script, as the engine answers:
\*   "client_failed"   docker.from_env() raises in the constructor
\*   "no_file"         the script file is missing: ValueError
\*   "launch_failed"   containers.run raises
\*   "exit0", "exit_nonzero"   the container exits within the timeout
\*   "logs_failed"     the container exits, reading or decoding its logs raises
\*   "timeout"         container.wait(timeout=...) raises
SandboxOutcomes == {"client_failed", "no_file", "launch_failed", "exit0", "exit_nonzero",
                    "logs_failed", "timeout"}

\* What container.logs(stdout=True, stderr=True).decode('utf-8') meets once the
\* wait has returned:
\*   "", "text"     the captured output, empty or not
\*   "undecodable"  output that is not valid UTF-8: decode raises UnicodeDecodeError
\*   "gone"         remove=True has already taken the exited container away: the
\*                  logs request raises NotFound
Logs == {"", "text", "undecodable", "gone"}
Decoded == {"", "text"}

\* The outcome class of a run whose container exited with that code
OutcomeOf(code, logs) ==
    IF logs \notin Decoded THEN "logs_failed"
    ELSE IF code = 0 THEN "exit0"
    ELSE "exit_nonzero"

NoResult == [called |-> FALSE, StatusCode |-> -1, logs |-> "", status |-> "none",
             exit_code |-> -1, output |-> "", error |-> "none"]

\* The dict execute_script returns for a container that exited with that code:
\* the return after the logs are read, or the one of except Exception
ScriptResult(code, logs) ==
    IF logs \in Decoded
        THEN [called |-> TRUE, StatusCode |-> code, logs |-> logs,
              status |-> IF code = 0 THEN "success" ELSE "failed",
              exit_code |-> code,
              output |-> logs,
              error |-> IF code = 0 THEN "none" ELSE logs]
    ELSE [called |-> TRUE, StatusCode |-> code, logs |-> logs,
          status |-> "error", exit_code |-> -1, output |-> "", error |-> "exception"]

\* (mutant) execute_job sets the end timestamp and leaves the status as it was
ResultStatusUnchanged(outcome) == "running"

\* result["status"] of execute_script, or the status execute_job sets when
\* execute_script raises
ResultStatus(outcome) ==
    IF outcome = "exit0" THEN "success"
    ELSE IF outcome = "exit_nonzero" THEN "failed"
    ELSE IF outcome = "no_file" THEN "failed"
    ELSE "error"

\* The container of the run afterwards: removed by remove=True once it exits;
\* nothing stops it when the wait times out.
ContainerAfter(outcome) ==
    IF outcome \in {"exit0", "exit_nonzero", "logs_failed"} THEN "removed"
    ELSE IF outcome = "timeout" THEN "running"
    ELSE "none"

\* execute_script from containers.run into container.wait: the container is
\* running and the coroutine sits in the synchronous wait.
container_wait(e) ==
    /\ Serving
    /\ execs[e].live
    /\ execs' = [execs EXCEPT ![e].container = "waiting"]
    /\ UNCHANGED <<phase, avars, now, jobs, timers, instances, nextExec, pending, jret,
                   xvars>>

\* execute_job from the sandbox call to its return and, for a timer dispatch, the
\* rest of _execute_job.
execute_job_finish(e, outcome) ==
    LET x == execs[e]
        j == x.job
        finalized == x.exists /\ outcome # "client_failed"
        byTimer == x.trigger = "timer"
    IN
    /\ x.live
    /\ IF x.container = "waiting"
         THEN outcome \in {"exit0", "exit_nonzero", "logs_failed", "timeout"}
         ELSE ~Blocked
    /\ execs' = [execs EXCEPT ![e] =
                    IF finalized
                      THEN [x EXCEPT !.live = FALSE, !.status = ResultStatus(outcome),
                                     !.finished = TRUE, !.outcome = outcome,
                                     !.container = ContainerAfter(outcome),
                                     !.kind = "none", !.seconds = NoSeconds,
                                     !.fired = NoTime]
                      ELSE [x EXCEPT !.live = FALSE, !.outcome = outcome,
                                     !.kind = "none", !.seconds = NoSeconds,
                                     !.fired = NoTime]]
    /\ jobs' = IF ~finalized THEN jobs
               ELSE [jobs EXCEPT
                       ![j].next_run = IF x.kind = "interval" /\ x.seconds # NoSeconds
                                         THEN now + x.seconds ELSE @,
                       ![j].is_active = IF byTimer /\ x.kind = "once" THEN FALSE ELSE @]
    /\ timers' = IF finalized /\ byTimer /\ x.kind = "once"
                   THEN unschedule_job(timers, j) ELSE timers
    /\ instances' = IF byTimer THEN [instances EXCEPT ![j] = @ - 1] ELSE instances
    /\ jret' = IF byTimer
                 THEN CallbackRet(j, IF outcome = "client_failed" THEN "sandbox" ELSE "none")
               ELSE IF outcome = "client_failed"
                 THEN [op |-> "manual", job |-> j, failure |-> "sandbox", out |-> "raised"]
               ELSE [op |-> "manual", job |-> j, failure |-> "none", out |-> "returned"]
    /\ UNCHANGED <<phase, avars, now, nextExec, pending, retry, cleanups, current_user>>

\* The same, the returned dict not looked at
ExecFinish(e, outcome) == execute_job_finish(e, outcome) /\ UNCHANGED result

\* execute_script from the return of container.wait: the container of execution e
\* has exited with that code, the logs are read, the dict is returned, and
\* execute_job goes on with it.
execute_script(e, code, logs) ==
    /\ execs[e].container = "waiting"
    /\ execute_job_finish(e, OutcomeOf(code, logs))
    /\ result' = ScriptResult(code, logs)

SandboxReturns(e) == \E outcome \in SandboxOutcomes : ExecFinish(e, outcome)

\* ------------------------------------------------------------------ process
NoLiveExec == \A e \in ExecIds : ~execs[e].live
TimerDue == \E j \in Jobs : timers[j].armed /\ timers[j].next <= now

\* Time passes.  While the process is up the timer facility wakes at each fire time,
\* so the clock does not pass an unprocessed due fire.
Tick ==
    /\ now + 100 <= MaxTime
    /\ Serving => ~TimerDue
    /\ now' = now + 100
    /\ UNCHANGED <<phase, avars, jobs, timers, instances, execs, nextExec, pending, jret,
                   xvars>>

\* main.lifespan startup: create_db_and_tables, init_scheduler.
\* SchedulerService.start -> _load_all_jobs: schedule_job for every active job, a
\* failure of one is logged and the rest are loaded.
_load_all_jobs ==
    [j \in Jobs |-> IF jobs[j].exists /\ jobs[j].is_active /\ ~ScheduleRaises(jobs[j])
                      THEN TimerEntry(jobs[j]) ELSE NoTimer]

Startup ==
    /\ phase = "down"
    /\ phase' = "up"
    /\ timers' = _load_all_jobs
    /\ swept' = NoSweep
    /\ pending' = [j \in Jobs |-> NoTime]
    /\ UNCHANGED <<agents, containers, call, ret, runCount, now, jobs, instances,
                   execs, nextExec, jret, xvars>>

ArmedFires == [j \in Jobs |-> IF timers[j].armed THEN timers[j].next ELSE NoTime]

\* The process dies: coroutines, retries, the timer set and the instance counts are gone;
\* storage and the containers stay as they are.
Crash ==
    /\ phase = "up"
    /\ phase' = "down"
    /\ call' = [p \in Callers |-> IdleCall]
    /\ execs' = [e \in ExecIds |->
                    [execs[e] EXCEPT !.live = FALSE, !.kind = "none", !.seconds = NoSeconds,
                                     !.fired = NoTime]]
    /\ timers' = [j \in Jobs |-> NoTimer]
    /\ instances' = [j \in Jobs |-> 0]
    /\ pending' = ArmedFires
    /\ jret' = NoJobRet
    /\ retry' = NoTry
    /\ UNCHANGED <<agents, containers, ret, runCount, swept, now, jobs, nextExec, cleanups,
                   ovars>>

\* graceful_shutdown_agents: every agent with status "running"; with a container id,
\* stop_agent_container(container_id, timeout=10), then status "stopped" and the id
\* deleted, or status "error" when the call raises; without one, status "stopped".
\* The updates are committed together at the end; when SandboxService() or the
\* commit raises, the outer handler logs it and nothing is written.
RunningAgents == {a \in Agents : agents[a].exists /\ agents[a].status = "running"}

\* (mutant) the loop's handler logs the failed stop and leaves the row as it is
SweptRowUnlessFailed(row, outcome) ==
    IF row.container_id = NoHandle THEN [row EXCEPT !.status = "stopped"]
    ELSE IF outcome = "ok" THEN [row EXCEPT !.status = "stopped", !.container_id = NoHandle]
    ELSE row

SweptRow(row, outcome) ==
    IF row.container_id = NoHandle THEN [row EXCEPT !.status = "stopped"]
    ELSE IF outcome = "ok" THEN [row EXCEPT !.status = "stopped", !.container_id = NoHandle]
    ELSE [row EXCEPT !.status = "error"]

\* What can fail inside graceful_shutdown_agents:
\*   "stop"     stop_agent_container raises for one agent
\*   "storage"  the session, the query, SandboxService() or the commit raises
SweepFailures == {"stop", "storage"}

\* (mutant) graceful_shutdown_agents with the loop's handler only
SweepCaughtInLoop(failure) == failure = "stop"

\* The handlers of graceful_shutdown_agents: except Exception around each agent's
\* stop, except Exception around the whole body
SweepCaught(failure) == failure \in SweepFailures

graceful_shutdown_agents(out, committed) ==
    LET withHandle == {a \in RunningAgents : agents[a].container_id # NoHandle}
        stopped == {agents[a].container_id : a \in {b \in withHandle : out[b] = "ok"}}
        failed == {f \in SweepFailures :
                      \/ f = "stop" /\ \E a \in withHandle : out[a] = "raised"
                      \/ f = "storage" /\ RunningAgents # {} /\ ~committed}
    IN
    /\ \A a \in withHandle : out[a] \in StopOutcomes(agents[a].container_id, {"timeout"})
    /\ \A a \in Agents \ withHandle : out[a] = "ok"
    /\ RunningAgents = {} => ~committed
    /\ containers' = [c \in ContainerIds |-> IF c \in stopped THEN NoAgent ELSE containers[c]]
    /\ agents' = IF committed
                   THEN [a \in Agents |-> IF a \in RunningAgents
                                            THEN SweptRow(agents[a], out[a]) ELSE agents[a]]
                   ELSE agents
    /\ runCount' = IF committed
                     THEN [a \in Agents |-> IF a \in RunningAgents THEN 0 ELSE runCount[a]]
                     ELSE runCount
    /\ swept' = [done |-> TRUE, committed |-> committed,
                 escaped |-> \E f \in failed : ~SweepCaught(f),
                 withHandle |-> {<<a, agents[a].container_id>> : a \in withHandle},
                 withoutHandle |-> RunningAgents \ withHandle]

\* The methods SandboxService defines
SandboxMethods ==
    {"execute_script", "check_sandbox_health", "build_sandbox_image",
     "start_agent_container", "stop_agent_container", "get_agent_container_status"}

\* The container ids recorded by agents with status "running"
RecordedHandles ==
    {agents[a].container_id : a \in {b \in RunningAgents : agents[b].container_id # NoHandle}}

\* cleanup_orphaned_containers: list the agent containers and stop each one whose id
\* no running agent records; a stop that raises is logged and the loop goes on, and
\* any other exception ends the function in its outer handler.  The listing is
\* sandbox.list_agent_containers(), which SandboxService does not define: the call
\* raises AttributeError before anything is stopped.
cleanup_orphaned_containers(out) ==
    LET listed == "list_agent_containers" \in SandboxMethods
        orphaned == {c \in ContainerIds : containers[c] # NoAgent /\ c \notin RecordedHandles}
    IN
    /\ Serving
    /\ cleanups < MaxCleanups
    /\ \A c \in ContainerIds :
          out[c] \in IF listed /\ c \in orphaned THEN StopOutcomes(c, {}) ELSE {"ok"}
    /\ containers' = [c \in ContainerIds |->
                        IF listed /\ c \in orphaned /\ out[c] = "ok"
                          THEN NoAgent ELSE containers[c]]
    /\ cleanups' = cleanups + 1
    /\ UNCHANGED <<phase, agents, call, ret, runCount, swept, jvars, retry, ovars>>

\* main.lifespan shutdown, once the server has drained its requests:
\* shutdown_scheduler, then graceful_shutdown_agents.
Shutdown ==
    /\ phase = "up"
    /\ Quiescent
    /\ NoLiveExec
    /\ phase' = "down"
    /\ timers' = [j \in Jobs |-> NoTimer]
    /\ pending' = ArmedFires
    /\ \E out \in [Agents -> {"ok", "raised"}], committed \in BOOLEAN :
            graceful_shutdown_agents(out, committed)
    /\ UNCHANGED <<call, ret, now, jobs, instances, execs, nextExec, jret, xvars>>

\* ------------------------------------------------------------------ specifications
Init ==
    /\ phase = "down"
    /\ agents = [a \in Agents |-> NoRow]
    /\ containers = [c \in ContainerIds |-> NoAgent]
    /\ call = [p \in Callers |-> IdleCall]
    /\ ret = [p \in Callers |-> NoRet]
    /\ runCount = [a \in Agents |-> 0]
    /\ swept = NoSweep
    /\ now = 0
    /\ jobs = [j \in Jobs |-> NoJob]
    /\ timers = [j \in Jobs |-> NoTimer]
    /\ instances = [j \in Jobs |-> 0]
    /\ execs = [e \in ExecIds |-> NoExec]
    /\ nextExec = 1
    /\ pending = [j \in Jobs |-> NoTime]
    /\ jret = NoJobRet
    /\ retry = NoTry
    /\ cleanups = 0
    /\ result = NoResult
    /\ current_user = 1

\* Agent lifecycle: API callers racing on start / stop / restart, the engine, and the
\* process lifespan.
AgentNext ==
    \/ Startup
    \/ Crash
    \/ Shutdown
    \/ \E a \in Agents, s \in BOOLEAN : create_agent(a, s)
    \/ \E p \in Callers, a \in Agents : StartLoad(p, a)
    \/ \E p \in Callers : StartLaunch(p)
    \/ \E p \in Callers, a \in Agents : StopLoad(p, a)
    \/ \E p \in Callers : StopFinish(p)
    \/ \E p \in Callers, a \in Agents : RestartStop(p, a)
    \/ \E p \in Callers : RestartStart(p)
    \/ \E c \in ContainerIds : ContainerVanishes(c)

Spec == Init /\ [][AgentNext]_vars

\* Jobs, the scheduler and executions.
JobNext ==
    \/ Startup
    \/ Crash
    \/ Tick
    \/ \E a \in Agents, s \in BOOLEAN : create_agent(a, s)
    \/ \E a \in Agents : delete_agent(a)
    \/ \E j \in JobSpecJobs, a \in Agents, r \in JobRequests, b \in BOOLEAN :
            create_job(j, a, r[1], r[2], r[3], b)
    \/ \E j \in JobSpecJobs, u \in Updates : update_job(j, u[1], u[2])
    \/ \E j \in JobSpecJobs : delete_job(j)
    \/ \E j \in JobSpecJobs : nextExec <= MaxJobSpecExecs /\ ExecuteJobNow(j)
    \/ \E j \in JobSpecJobs : nextExec <= MaxJobSpecExecs /\ TimerFire(j)
    \/ \E e \in ExecIds : SandboxReturns(e)

JobSpec == Init /\ [][JobNext]_vars

\* Overlapping executions of interval jobs: timer fires and manual triggers.
OverlapNext ==
    \/ Startup
    \/ Crash
    \/ Tick
    \/ \E a \in Agents : create_agent(a, TRUE)
    \/ \E j \in JobSpecJobs, a \in Agents : create_job(j, a, "interval", 100, "none", TRUE)
    \/ \E j \in JobSpecJobs : ExecuteJobNow(j)
    \/ \E j \in JobSpecJobs : TimerFire(j)
    \/ \E e \in ExecIds, o \in {"exit0", "timeout"} : ExecFinish(e, o)

OverlapSpec == Init /\ [][OverlapNext]_vars

\* Two interval jobs and the event loop: fires that come due while an execution
\* waits for its container.
DispatchNext ==
    \/ Startup
    \/ Tick
    \/ \E a \in Agents : create_agent(a, TRUE)
    \/ \E j \in Jobs, a \in Agents : create_job(j, a, "interval", 100, "none", TRUE)
    \/ \E j \in Jobs : nextExec <= MaxDispatchExecs /\ TimerFire(j)
    \/ \E e \in ExecIds : container_wait(e)
    \/ \E e \in ExecIds, o \in {"exit0", "timeout"} : ExecFinish(e, o)

DispatchSpec == Init /\ [][DispatchNext]_vars

\* The engine calls made under with_retry, attempt by attempt.
RetryNext ==
    \/ Startup
    \/ Crash
    \/ \E a \in Agents, s \in BOOLEAN : create_agent(a, s)
    \/ \E a \in Agents : with_retry("start_agent_container", a)
    \/ \E c \in ContainerIds : with_retry("stop_agent_container", c)
    \/ \E fault \in {"none", "not_found", "get_error", "api_error"} : retry_async(fault)
    \/ \E c \in ContainerIds : ContainerVanishes(c)

RetrySpec == Init /\ [][RetryNext]_vars

\* The same, with the event loop resuming the coroutine that sits in retry_async
\* Two users, one agent and one job: each user's requests on the rows of the other.
OwnerNext ==
    \/ Startup
    \/ \E u \in Users : login(u)
    \/ \E a \in Agents : create_agent(a, TRUE)
    \/ \E a \in Agents : delete_agent(a)
    \/ \E a \in Agents : StartLoad(1, a)
    \/ StartLaunch(1)
    \/ \E a \in Agents : StopLoad(1, a)
    \/ StopFinish(1)
    \/ \E a \in Agents : RestartStop(1, a)
    \/ RestartStart(1)
    \/ \E j \in JobSpecJobs, a \in Agents, b \in BOOLEAN :
            create_job(j, a, "interval", 100, "none", b)
    \/ \E j \in JobSpecJobs, b \in BOOLEAN : update_job(j, "is_active", b)
    \/ \E j \in JobSpecJobs : delete_job(j)
    \/ \E j \in JobSpecJobs : nextExec <= MaxOwnerExecs /\ ExecuteJobNow(j)
    \/ \E e \in ExecIds, o \in {"exit0", "exit_nonzero"} : ExecFinish(e, o)

OwnerSpec == Init /\ [][OwnerNext]_vars

\* Manual executions of one job, and what execute_script returns for them.
SandboxNext ==
    \/ Startup
    \/ \E a \in Agents : create_agent(a, TRUE)
    \/ \E j \in JobSpecJobs, a \in Agents : create_job(j, a, "once", NoSeconds, "none", FALSE)
    \/ \E j \in JobSpecJobs : nextExec <= MaxSandboxExecs /\ ExecuteJobNow(j)
    \/ \E e \in ExecIds : container_wait(e)
    \/ \E e \in ExecIds, code \in ExitCodes, logs \in Logs : execute_script(e, code, logs)

SandboxSpec == Init /\ [][SandboxNext]_vars

RetryFairSpec ==
    /\ Init
    /\ [][RetryNext]_vars
    /\ WF_vars(\E fault \in {"none", "not_found", "get_error", "api_error"} : retry_async(fault))

\* One API caller, a failing audit write, and the orphan cleanup.
FaultNext ==
    \/ Startup
    \/ \E a \in Agents, s \in BOOLEAN : create_agent(a, s)
    \/ \E a \in Agents : StartLoad(1, a)
    \/ StartLaunch(1)
    \/ StartLaunchAuditFails(1)
    \/ \E a \in Agents : StopLoad(1, a)
    \/ StopFinish(1)
    \/ \E c \in ContainerIds : ContainerVanishes(c)
    \/ \E out \in [ContainerIds -> {"ok", "raised"}] : cleanup_orphaned_containers(out)

FaultSpec == Init /\ [][FaultNext]_vars

\* ------------------------------------------------------------------ claims
\* An agent claims a container the engine does not know.
Dangling(a) ==
    /\ agents[a].exists
    /\ agents[a].status = "running"
    /\ agents[a].container_id # NoHandle
    /\ containers[agents[a].container_id] = NoAgent

\* C1: whenever no start, stop, restart or shutdown is in progress, an agent's
\* status is "running" if and only if its configuration holds a container id.
C1_RunningIffHandle ==
    Quiescent =>
        \A a \in Agents :
            agents[a].exists =>
                (agents[a].status = "running" <=> agents[a].container_id # NoHandle)

\* C2: concurrent start_agent calls for the same stopped agent create exactly one
\* container for it: between two writes of a non-running status, at most one
\* container is run for the agent.
C2_OneContainerPerStart == \A a \in Agents : runCount[a] <= 1

\* C9: when startup completes, no agent is left with status "running" and a
\* container id the engine does not know.
C9_StartupReconciles ==
    [][(phase = "down" /\ phase' = "up") => \A a \in Agents : ~Dangling(a)']_vars

\* C10: when graceful_shutdown_agents has completed and committed, every agent that
\* was running with a container id has status "stopped" and its container is gone
\* from the engine, and every agent that was running without one has status "stopped".
C10_SweepStopsAll ==
    (swept.done /\ swept.committed) =>
        /\ \A ah \in swept.withHandle :
                agents[ah[1]].status = "stopped" /\ containers[ah[2]] = NoAgent
        /\ \A a \in swept.withoutHandle : agents[a].status = "stopped"

\* C3: an execution whose container did not exit within the timeout ends with
\* status "timeout" and an end timestamp, and its container is no longer running.
C3_TimeoutTerminates ==
    \A e \in ExecIds :
        (execs[e].exists /\ execs[e].outcome = "timeout") =>
            /\ execs[e].status = "timeout"
            /\ execs[e].finished
            /\ execs[e].container # "running"

\* C4: once execute_job has come back from the sandbox, whatever the outcome, the
\* execution row it created is no longer "running".
C4_ExecutionFinalized ==
    \A e \in ExecIds :
        (execs[e].exists /\ ~execs[e].live /\ execs[e].outcome # "none") =>
            execs[e].status # "running"

\* C5: with the scheduler initialised and no dispatch in flight, a job id has a timer
\* entry if and only if the job exists in storage with is_active true.
C5_TimersMirrorActiveJobs ==
    (phase = "up" /\ NoLiveExec) =>
        \A j \in Jobs : timers[j].armed <=> (jobs[j].exists /\ jobs[j].is_active)

\* C6: when the scheduler's dispatch of a once job ends, the job's is_active is false
\* and it has no timer entry.
C6_OnceDeactivated ==
    [][\A e \in ExecIds :
          (/\ execs[e].live /\ ~execs'[e].live /\ phase' = "up"
           /\ execs[e].trigger = "timer" /\ execs[e].kind = "once") =>
              (/\ ~jobs'[execs[e].job].is_active
               /\ ~timers'[execs[e].job].armed)]_vars

\* In-flight executions of job j that were started by trigger t
InFlight(j, ts) ==
    {e \in ExecIds : execs[e].live /\ execs[e].job = j /\ execs[e].trigger \in ts}

\* C7: at most 3 executions of one job are in flight, whatever started them.
C7_AtMostThreeInFlight ==
    \A j \in Jobs : Cardinality(InFlight(j, {"timer", "manual"})) <= max_instances

\* C7 (amended): at most 3 executions of one job started by timer fires are in
\* flight; executions started by executeJobNow are not limited.
C7_TimerInstancesBounded ==
    \A j \in Jobs : Cardinality(InFlight(j, {"timer"})) <= max_instances

\* Three timer dispatches of one job in flight, and a manual one beside them
C7_CapReachedWithManual ==
    \E j \in Jobs :
        /\ Cardinality(InFlight(j, {"timer"})) = max_instances
        /\ Cardinality(InFlight(j, {"manual"})) >= 1

\* C8: when the process comes back up after a fire time that was armed when it went
\* down, and the fire is late by no more than the grace time, the fire is in the
\* timer set again, due for dispatch.
C8_MissedFireDispatched ==
    [][(phase = "down" /\ phase' = "up") =>
          \A j \in Jobs :
              (/\ jobs[j].exists /\ jobs[j].is_active
               /\ pending[j] # NoTime /\ pending[j] < now
               /\ now - pending[j] <= misfire_grace_time) =>
                  (timers'[j].armed /\ timers'[j].next <= now)]_vars

C12_FailedDispatchRecorded ==
    (/\ jret.op = "timer" /\ jret.failure \in {"no_script", "sandbox"}
     /\ jobs[jret.job].exists /\ agents[jobs[jret.job].agent].exists) =>
        \E e \in ExecIds :
            execs[e].exists /\ execs[e].job = jret.job /\ execs[e].status = "failed"

\* C13: executeJobNow on a job whose agent has no script raises a validation error
\* and creates no Execution record.
C13_NoScriptRejected ==
    [][\A j \in Jobs :
          (/\ ExecuteJobNow(j)
           /\ ~(agents[jobs[j].agent].exists /\ agents[jobs[j].agent].script)) =>
              (/\ execs' = execs
               /\ jret' = [op |-> "manual", job |-> j, failure |-> "no_script",
                           out |-> "raised"])]_vars

\* executeJobNow has been refused for want of a script
C13_ManualRefused ==
    /\ jret.op = "manual" /\ jret.failure = "no_script" /\ jret.out = "raised"
    /\ jobs[jret.job].exists /\ agents[jobs[jret.job].agent].exists
    /\ \A e \in ExecIds : ~execs[e].exists

\* C14: an Execution's end timestamp is null exactly while its status is "running",
\* and once the status is terminal the record's status, end timestamp, output and
\* container state never change again.
C14_FinalizedOnce ==
    /\ [](\A e \in ExecIds :
            execs[e].exists => (execs[e].finished <=> execs[e].status # "running"))
    /\ [][\A e \in ExecIds :
            (execs[e].exists /\ execs[e].status # "running" /\ execs'[e].exists) =>
                (/\ execs'[e].status = execs[e].status
                 /\ execs'[e].finished = execs[e].finished
                 /\ execs'[e].outcome = execs[e].outcome
                 /\ execs'[e].container = execs[e].container)]_vars

\* An Execution that a completed call has finalized
C14_TerminalRecord ==
    \E e \in ExecIds :
        /\ execs[e].exists /\ execs[e].finished /\ execs[e].status \in {"success", "failed"}
        /\ jret.op # "none"

\* C15: every Execution record's status is one of running, success, failed, timeout.
C15_StatusInEnum ==
    \A e \in ExecIds :
        execs[e].exists => execs[e].status \in {"running", "success", "failed", "timeout"}

Statuses == {"stopped", "running", "error"}

\* Caller p's start_agent comes back in this step
StartDone(p, a) ==
    phase' = "up" /\ call[p].op = "start" /\ call[p].agent = a /\ call'[p] = IdleCall

\* Caller p's stop_agent comes back in this step without raising, to its caller or
\* to restart_agent
StopReturns(p, a) ==
    /\ phase' = "up" /\ call[p].op = "stop" /\ call[p].agent = a
    /\ \/ call'[p].op = "restart"
       \/ call'[p] = IdleCall /\ ret'[p].out = "stopped"

\* Every status change made while the process is up is the work of start_agent,
\* stop_agent or restart_agent and follows an edge of the state machine whose
\* starts lead to "running" from the states in from; restart enters its start
\* half with the agent stopped.
FollowsEdges(from) ==
    /\ \A a \in Agents :
          (/\ phase' = "up" /\ agents[a].exists /\ agents'[a].exists
           /\ agents'[a].status # agents[a].status) =>
              /\ agents'[a].status = "running" =>
                    /\ agents[a].status \in from
                    /\ \E p \in Callers : StartDone(p, a) /\ ret'[p].out = "running"
              /\ agents'[a].status = "error" =>
                    \E p \in Callers : StartDone(p, a) /\ ret'[p].out = "raised"
              /\ agents'[a].status = "stopped" =>
                    \E p \in Callers : StopReturns(p, a)
    /\ \A p \in Callers :
          (call[p].op # "restart" /\ call'[p].op = "restart") =>
              agents'[call'[p].agent].status = "stopped"

\* C16: agent status is always one of stopped, running, error, and every change made
\* by start_agent, stop_agent or restart_agent follows stopped -> running,
\* running -> stopped, error -> stopped or a start failure -> error.
C16_StateMachine ==
    /\ [](\A a \in Agents : agents[a].status \in Statuses)
    /\ [][FollowsEdges({"stopped"})]_vars

\* C16 (amended): as C16, with the further edge error -> running: start_agent on an
\* agent in error succeeds.
C16_StateMachineWithRetry ==
    /\ [](\A a \in Agents : agents[a].status \in Statuses)
    /\ [][FollowsEdges({"stopped", "error"})]_vars

\* A start_agent has taken an agent from "error" to "running"
C16_StartedFromError ==
    \E p \in Callers :
        ret[p].op = "start" /\ ret[p].out = "running" /\ ret[p].was = "error"

\* C17: when stop_agent returns for an agent that was not stopped, the agent's
\* status is "stopped", even if stopping its container failed.
C17_StopMarksStopped ==
    [][\A p \in Callers, a \in Agents :
          StopReturns(p, a) => agents'[a].status = "stopped"]_vars

\* stop_agent has returned although the container could not be stopped: the agent
\* is stopped, the container is still there
C17_StoppedDespiteFailure ==
    \E p \in Callers :
        /\ ret[p].op = "stop" /\ ret[p].out = "stopped"
        /\ agents[ret[p].agent].status = "stopped"
        /\ agents[ret[p].agent].container_id # NoHandle
        /\ containers[agents[ret[p].agent].container_id] = ret[p].agent

\* C18: when stop_agent returns for an agent that was not stopped, the agent's
\* configuration holds no container id, whether or not the stop succeeded.
C18_StopClearsHandle ==
    [][\A p \in Callers, a \in Agents :
          StopReturns(p, a) => agents'[a].container_id = NoHandle]_vars

\* C19: stop_agent on an agent that is already stopped returns it as stopped at
\* once: no stored state changes and no container-stop call is made.
C19_StopIdempotent ==
    [][\A p \in Callers, a \in Agents :
          (StopLoad(p, a) /\ agents[a].exists /\ agents[a].status = "stopped") =>
              (/\ ret'[p] = [op |-> "stop", agent |-> a, out |-> "stopped",
                             was |-> "stopped"]
               /\ call'[p] = IdleCall
               /\ agents' = agents
               /\ containers' = containers)]_vars

\* Two callers have been told "stopped" for an agent that is stopped
C19_StoppedTwice ==
    \E a \in Agents :
        /\ agents[a].exists /\ agents[a].status = "stopped"
        /\ \A p \in Callers :
              ret[p] = [op |-> "stop", agent |-> a, out |-> "stopped", was |-> "stopped"]
        /\ Quiescent

\* C20: when start_agent_container raises, start_agent commits status "error" and
\* raises to its caller; a start_agent that returns "running" has a container.
C20_StartFailureIsError ==
    [][\A p \in Callers :
          /\ \A outcome \in {"before", "run_failed"} :
                start_agent_launch(p, outcome) =>
                    (/\ agents'[call[p].agent].status = "error"
                     /\ ret'[p].out = "raised")
          /\ (StartDone(p, call[p].agent) /\ ret'[p].out = "running") =>
                (/\ agents'[call[p].agent].status = "running"
                 /\ containers'[agents'[call[p].agent].container_id] = call[p].agent)]_vars

\* The only call completed so far is a start that found the agent stopped, raised
\* and left it in error
C20_StartRaised ==
    \E p \in Callers :
        /\ ret[p].op = "start" /\ ret[p].out = "raised" /\ ret[p].was = "stopped"
        /\ agents[ret[p].agent].exists /\ agents[ret[p].agent].script
        /\ agents[ret[p].agent].status = "error"
        /\ \A q \in Callers \ {p} : ret[q] = NoRet
        /\ Quiescent

C22_TransientErrorRetried ==
    (retry.out = "raised" /\ retry.fault \in {"get_error", "api_error"}) =>
        (retry.attempt = max_retries /\ retry.slept = 1 + 2 + 4)

\* C23: while the execution of one job waits for its container to exit, a due fire
\* of another job can be dispatched.
C23_OtherJobDispatched ==
    \A e \in ExecIds, j \in Jobs :
        (/\ phase = "up"
         /\ execs[e].live /\ execs[e].container = "waiting" /\ execs[e].job # j
         /\ jobs[j].exists /\ jobs[j].is_active /\ HasScript(j)
         /\ timers[j].armed /\ timers[j].next <= now /\ ~Misfired(timers[j].next)
         /\ nextExec <= MaxExecs) =>
            ENABLED _execute_job(j, "ok")

\* C24: at most one container bears the deterministic name of an agent, however
\* many times start_agent_container has run for it.
C24_OneNamedContainer == \A a \in Agents : Cardinality(Named(a)) <= 1

\* Two containers have been run for an agent that stayed "running", and one is left
C24_StaleReplaced ==
    \E a \in Agents :
        /\ runCount[a] >= 2
        /\ Named(a) = {agents[a].container_id}

\* C25: when cleanup_orphaned_containers has run to its end, no container is left
\* that no running agent records, and every container that a running agent
\* records is still there.
C25_OrphansStopped ==
    [][cleanups' = cleanups + 1 =>
          /\ \A c \in ContainerIds : containers'[c] # NoAgent => c \in RecordedHandles'
          /\ \A c \in RecordedHandles : containers[c] # NoAgent => containers'[c] # NoAgent]_vars

\* C26: when the audit write of start_agent fails after the container has started,
\* start_agent returns all the same, the agent "running" with its container id
\* stored.
C26_AuditFailureHarmless ==
    [][\A p \in Callers, outcome \in AuditOutcomes :
          start_agent_launch(p, outcome) =>
              (/\ ret'[p].out = "running"
               /\ agents'[call[p].agent].status = "running"
               /\ agents'[call[p].agent].container_id # NoHandle)]_vars

\* C27: when a timer dispatch of an active cron job has finalized its execution,
\* the job's next_run is the next cron match after that instant.
C27_CronNextRunRecomputed ==
    [][\A e \in ExecIds :
          (/\ execs[e].live /\ ~execs'[e].live /\ phase' = "up"
           /\ execs[e].trigger = "timer" /\ execs'[e].finished
           /\ jobs[execs[e].job].exists /\ jobs[execs[e].job].is_active
           /\ jobs[execs[e].job].schedule_type = "cron") =>
              (/\ jobs'[execs[e].job].next_run = CronNext(now')
               /\ jobs'[execs[e].job].next_run > now')]_vars

\* C28: when a timer dispatch of an interval job with interval_seconds n ends, the
\* job's next_run lies in [now, now + n] and is later than the fire time that was
\* dispatched.
C28_IntervalNextRunBounds ==
    [][\A e \in ExecIds :
          (/\ execs[e].live /\ ~execs'[e].live /\ phase' = "up"
           /\ execs[e].trigger = "timer"
           /\ jobs[execs[e].job].exists
           /\ jobs[execs[e].job].schedule_type = "interval"
           /\ jobs[execs[e].job].interval_seconds # NoSeconds) =>
              (/\ jobs'[execs[e].job].next_run >= now'
               /\ jobs'[execs[e].job].next_run <= now' + jobs[execs[e].job].interval_seconds
               /\ jobs'[execs[e].job].next_run > execs[e].fired)]_vars

\* C29: deactivating or deleting a job leaves the job's in-flight executions as
\* they are, and an in-flight execution whose sandbox call comes back is finalized
\* with the result.
C29_InFlightSurvivesRemoval ==
    [][/\ \A j \in Jobs :
            (delete_job(j) \/ update_job(j, "is_active", FALSE)) =>
                \A e \in ExecIds :
                    (execs[e].live /\ execs[e].job = j) => execs'[e] = execs[e]
       /\ \A e \in ExecIds :
            (/\ execs[e].live /\ ~execs'[e].live /\ phase' = "up"
             /\ execs[e].exists /\ execs'[e].outcome # "client_failed") =>
                (/\ execs'[e].finished
                 /\ execs'[e].status = ResultStatus(execs'[e].outcome))]_vars

\* The schedule kind lacks its parameter
MissingParameter(kind, seconds, cron) ==
    \/ kind = "interval" /\ seconds = NoSeconds
    \/ kind = "cron" /\ cron = "none"

\* C30: create_job with a schedule kind whose parameter is missing, and update_job
\* to such a kind, store nothing: the jobs table is as it was.
C30_MissingParameterRejected ==
    [][\A j \in Jobs :
          /\ \A a \in Agents, r \in JobRequests, b \in BOOLEAN :
                (create_job(j, a, r[1], r[2], r[3], b) /\ MissingParameter(r[1], r[2], r[3]))
                    => jobs' = jobs
          /\ \A kind \in Kinds :
                (/\ update_job(j, "schedule_type", kind)
                 /\ MissingParameter(kind, jobs[j].interval_seconds,
                                     jobs[j].cron_expression))
                    => jobs' = jobs]_vars

\* C33: start_agent on an agent whose status is "running" returns it as it is: the
\* call ends there with the agent returned, the status and the container handle are
\* not written, and the engine is not called.
C33_StartOnRunningIsNoOp ==
    [][\A p \in Callers, a \in Agents :
          (/\ StartLoad(p, a) \/ (RestartStart(p) /\ call[p].agent = a)
           /\ agents[a].exists /\ agents[a].script
           /\ agents[a].status = "running") =>
              (/\ call'[p] = IdleCall
               /\ ret'[p].out = "running" /\ ret'[p].was = "running"
               /\ agents' = agents
               /\ containers' = containers
               /\ runCount' = runCount)]_vars

\* A start call found the agent running and returned it
C33_FoundRunning ==
    \E p \in Callers :
        /\ ret[p].op = "start" /\ ret[p].out = "running" /\ ret[p].was = "running"
        /\ agents[ret[p].agent].status = "running"

\* C34: start_agent on an agent with no script raises before any engine call: the
\* call ends there with the error, and the status, the configuration and the
\* engine's containers are as they were.
C34_StartWithoutScriptFails ==
    [][\A p \in Callers, a \in Agents :
          (/\ StartLoad(p, a) \/ (RestartStart(p) /\ call[p].agent = a)
           /\ agents[a].exists /\ ~agents[a].script) =>
              (/\ call'[p] = IdleCall
               /\ ret'[p].out = "raised"
               /\ agents' = agents
               /\ containers' = containers
               /\ runCount' = runCount)]_vars

\* A start call on an agent without a script raised, and the agent is still stopped
C34_StartRefused ==
    \E p \in Callers :
        /\ ret[p].op = "start" /\ ret[p].out = "raised" /\ ret[p].was = "stopped"
        /\ agents[ret[p].agent].exists /\ ~agents[ret[p].agent].script
        /\ agents[ret[p].agent].status = "stopped"
        /\ agents[ret[p].agent].container_id = NoHandle

\* C36: graceful_shutdown_agents never lets an exception out: whatever failed in
\* it (storage, the engine client, the commit, the stop of a single agent), the
\* function has returned.
C36_ShutdownNeverRaises == swept.done => ~swept.escaped

\* A sweep that found running agents, failed to stop one and failed to commit,
\* and returned
C36_FailedSweepReturned ==
    /\ swept.done /\ ~swept.committed /\ ~swept.escaped
    /\ swept.withHandle # {}
    /\ \E w \in swept.withHandle : containers[w[2]] # NoAgent

C37_SkippedFireChangesNothing ==
    [][\A j \in Jobs :
          (/\ _execute_job(j, "ok")
           /\ ~jobs[j].exists \/ ~jobs[j].is_active) =>
              (/\ execs' = execs /\ nextExec' = nextExec
               /\ instances' = instances
               /\ jobs' = jobs
               /\ timers' = [timers EXCEPT ![j] = AfterFire(timers[j])]
               /\ agents' = agents /\ containers' = containers)]_vars

\* The callback of a job deleted with its agent ran and returned without a
\* dispatch, and the job's timer entry is still armed
C37_FireOfDeletedJobSkipped ==
    /\ jret.op = "timer" /\ jret.failure = "skipped" /\ jret.out = "returned"
    /\ ~jobs[jret.job].exists
    /\ timers[jret.job].armed
    /\ \A e \in ExecIds : ~execs[e].exists

\* C40: when update_job re-schedules an active job that has a timer entry and the
\* job's schedule configuration is one schedule_job raises for, the entry is gone
\* afterwards, while the job is stored as active.
C40_InvalidRescheduleDropsEntry ==
    [][\A j \in Jobs, u \in Updates :
          (/\ update_job(j, u[1], u[2])
           /\ timers[j].armed
           /\ ~UpdateRaises(Updated(jobs[j], u[1], u[2]), u[1])
           /\ jobs'[j].is_active
           /\ ScheduleRaises(jobs'[j])) =>
              (/\ timers'[j] = NoTimer
               /\ jobs'[j].exists /\ jobs'[j].is_active)]_vars

\* An active job with a timer entry, about to be updated to the cron kind with no
\* expression stored: the update is stored, schedule_job raises, the entry is gone
C40_EntryDroppedByInvalidUpdate ==
    \E j \in Jobs :
        /\ timers[j].armed /\ jobs[j].is_active /\ jobs[j].cron_expression = "none"
        /\ ENABLED (/\ update_job(j, "schedule_type", "cron")
                    /\ ScheduleRaises(jobs'[j])
                    /\ jobs'[j].is_active
                    /\ ~timers'[j].armed)

\* C38: retry_async always terminates.  The function is invoked at most
\* max_retries + 1 times; when the call ends raising an exception of a listed class
\* it was invoked exactly max_retries + 1 times and slept delay * backoff^k before
\* retry k; an exception outside the listed classes is raised by the pass that met
\* it, with no sleep; once a pass has returned or raised, the function is not
\* invoked again; and a call in progress comes to an end.
C38_RetryTerminates ==
    /\ [](retry.attempt <= max_retries)
    /\ []((retry.out = "raised" /\ Raises(retry.func, retry.fault) \in RetriedExceptions(retry.func))
            => (retry.attempt = max_retries /\ retry.slept = delay + delay * backoff
                                                             + delay * backoff * backoff))
    /\ [][\A fault \in {"none", "not_found", "get_error", "api_error"} :
            /\ (/\ retry_async(fault)
                /\ Raises(retry.func, fault) \notin RetriedExceptions(retry.func) \cup {"none"})
                    => (/\ retry'.out = "raised" /\ retry'.attempt = retry.attempt
                        /\ retry'.slept = retry.slept /\ now' = now)
            /\ retry.out \in {"returned", "raised"} => ~retry_async(fault)]_vars
    /\ (retry.out = "calling") ~> (retry.out # "calling")

\* start_agent_container failed four times with an error of a listed class and
\* retry_async raised the last one
C38_AllAttemptsFailed ==
    /\ retry.func = "start_agent_container"
    /\ retry.out = "raised" /\ retry.fault = "get_error"
    /\ retry.attempt = max_retries
    /\ retry.slept = 7

\* C31: create_job of a cron job, and update_job of a cron job's expression, with
\* an expression that is not a parsable cron expression store nothing and arm
\* nothing: the jobs table and the timer set are as they were.
C31_UnparsableCronRejected ==
    [][\A j \in Jobs :
          /\ \A a \in Agents, c \in CrontabRejects, b \in BOOLEAN :
                create_job(j, a, "cron", NoSeconds, c, b) =>
                    (jobs' = jobs /\ timers' = timers)
          /\ \A u \in Updates :
                (/\ update_job(j, u[1], u[2])
                 /\ u[1] = "cron_expression" /\ u[2] \in CrontabRejects
                 /\ jobs[j].schedule_type = "cron") =>
                    (jobs' = jobs /\ timers' = timers)]_vars

\* C35: for a container that exited, execute_script returns status "success"
\* exactly when the exit code is 0 and "failed" exactly when it is not, in which
\* case the captured output is also the error detail; the exit code it reports is
\* the container's.
C35_StatusFollowsExitCode ==
    result.called =>
        /\ result.status = "success" <=> result.StatusCode = 0
        /\ result.status = "failed" <=> result.StatusCode # 0
        /\ result.exit_code = result.StatusCode
        /\ result.StatusCode # 0 => (result.error = result.output /\ result.output = result.logs)

\* The row is stored and was created by a user other than the one requesting
NotOwnAgent(a) == agents[a].exists /\ agents[a].created_by # current_user
NotOwnJob(j) == jobs[j].exists /\ jobs[j].created_by # current_user

\* C32: a request on an agent or a job by a user who is not its owner is answered
\* as not found and starts nothing: start, stop and restart end at once with None
\* and leave the agents and the containers as they are; update, delete and execute
\* are not carried out; and no request changes or removes a row of another user,
\* creates an execution of another user's agent, or has the engine run it.
C32_OnlyOwnerOperates ==
    [][/\ \A p \in Callers, a \in Agents :
            ((StartLoad(p, a) \/ StopLoad(p, a) \/ RestartStop(p, a)) /\ NotOwnAgent(a)) =>
                (/\ ret'[p].out = "none" /\ call'[p] = IdleCall
                 /\ agents' = agents /\ containers' = containers)
       /\ \A a \in Agents : delete_agent(a) => ~NotOwnAgent(a)
       /\ \A j \in Jobs :
            (delete_job(j) \/ ExecuteJobNow(j) \/ \E u \in Updates : update_job(j, u[1], u[2]))
                => ~NotOwnJob(j)
       /\ \A a \in Agents : delete_agent(a) =>
            \A j \in Jobs : NotOwnJob(j) => jobs'[j] = jobs[j]
       /\ \A j \in Jobs : (ExecuteJobNow(j) /\ nextExec' # nextExec) =>
            ~NotOwnAgent(jobs[j].agent)]_vars

=============================================================================
